---- MODULE Spec2Model ----
(***************************************************************************)
(* A model of abstracta's Group.py: GroupElem, Group, GroupHomomorphism    *)
(* and the constructors Zn and Sn, over the AlgSet and Function classes    *)
(* the file imports.                                                       *)
(*                                                                         *)
(* Python values are modelled as follows.                                  *)
(*   - an AlgSet is a TLA+ set; AlgSet * AlgSet is the Cartesian product;  *)
(*   - a Function is a record [domain, codomain, function], `function`     *)
(*     being the rule (a TLA+ function on the domain it was first given);  *)
(*   - a Group is a record [Set, bin_op, e, abelian], e the raw identity   *)
(*     found by the constructor;                                           *)
(*   - a GroupElem is a record [elem, group];                              *)
(*   - a Python number is a record [type, val], type "int" or "float";     *)
(*   - the outcome of a call is a record [status, val]: status "ok" with   *)
(*     the returned value, or the name of the exception raised.            *)
(***************************************************************************)
EXTENDS Integers, Sequences, FiniteSets, TLC

VARIABLES G, H, sameType, pc, arg, ret, local

vars == <<G, H, sameType, pc, arg, ret, local>>

-----------------------------------------------------------------------------
(* Outcomes of calls *)

Ok(v) == [status |-> "ok", val |-> v]

Raise(exc) == [status |-> exc, val |-> <<>>]

None == [status |-> "None", val |-> <<>>]

IsOk(r) == r.status = "ok"

-----------------------------------------------------------------------------
(* Python numbers: int and float *)

Int_(n) == [type |-> "int", val |-> n]

Float_(n) == [type |-> "float", val |-> n]

IsNumber(x) == "type" \in DOMAIN x

isinstance_int(x) == IsNumber(x) /\ x.type = "int"

isinstance_GroupElem(x) == "elem" \in DOMAIN x

\* n / 2 of line 104: true division, whose result is a float whatever n is
TrueDiv2(n) == Float_(n.val \div 2)

-----------------------------------------------------------------------------
(* AlgSet *)

\* iteration of an AlgSet: an implementation-defined but stable order
RECURSIVE Iter(_)
Iter(S) ==
    IF S = {} THEN <<>>
    ELSE LET x == CHOOSE y \in S : TRUE IN <<x>> \o Iter(S \ {x})

Range(s) == {s[i] : i \in DOMAIN s}

\* AlgSet.pick: the elements pick() may return
pick(S) == S

-----------------------------------------------------------------------------
(* Function *)

\* Function(domain, codomain, function): the rule must map into the codomain
Function(domain, codomain, function) ==
    IF \A x \in domain : x \in DOMAIN function /\ function[x] \in codomain
    THEN Ok([domain |-> domain, codomain |-> codomain, function |-> function])
    ELSE Raise("TypeError")

\* Function.__call__
Function_call(F, x) ==
    IF x \notin F.domain THEN Raise("TypeError") ELSE Ok(F.function[x])

\* Function.__eq__: same domain, same codomain, same value at every point
Function_eq(F1, F2) ==
    /\ F1.domain = F2.domain
    /\ F1.codomain = F2.codomain
    /\ \A x \in F1.domain : F1.function[x] = F2.function[x]

\* Function.new_domains: the same rule on another domain and codomain
new_domains(F, domain, codomain) == Function(domain, codomain, F.function)

-----------------------------------------------------------------------------
(* Group.__init__ *)

\* bin_op((a, b)) for a, b in the group's set
Op(F, a, b) == F.function[<<a, b>>]

IsAssociative(S, F) ==
    \A a \in S, b \in S, c \in S : Op(F, a, Op(F, b, c)) = Op(F, Op(F, a, b), c)

\* the identity test of line 149: e is a left identity
IsIdentity(S, F, e) == \A a \in S : Op(F, e, a) = a

\* lines 148-151: the first e, in iteration order, that passes the test
FindIdentity(S, F) ==
    LET it == Iter(S)
        hits == {i \in DOMAIN it : IsIdentity(S, F, it[i])}
    IN  IF hits = {} THEN Raise("ValueError")
        ELSE Ok(it[CHOOSE i \in hits : \A j \in hits : i <= j])

\* the inverse test of line 157: some b with a * b = e
HasInverse(S, F, e, a) == \E b \in S : Op(F, a, b) = e

IsAbelianOp(S, F) == \A a \in S, b \in S : Op(F, a, b) = Op(F, b, a)

Group_init(S, F) ==
    IF F.codomain # S THEN Raise("TypeError")
    ELSE IF F.domain # S \X S THEN Raise("TypeError")
    ELSE IF ~IsAssociative(S, F) THEN Raise("ValueError")
    ELSE LET id == FindIdentity(S, F) IN
         IF ~IsOk(id) THEN Raise("ValueError")
         ELSE IF \E a \in S : ~HasInverse(S, F, id.val, a) THEN Raise("ValueError")
         ELSE Ok([Set |-> S, bin_op |-> F, e |-> id.val,
                  abelian |-> IsAbelianOp(S, F)])

\* Group(G, Function(G * G, G, rule)): the constructor calls of Zn, Sn, __mul__
GroupOf(S, rule) ==
    LET F == Function(S \X S, S, rule)
    IN  IF IsOk(F) THEN Group_init(S, F.val) ELSE F

is_abelian(g) == g.abelian

Group_len(g) == Cardinality(g.Set)

-----------------------------------------------------------------------------
(* The groups the model is run on *)

\* the largest carrier {0 .. n-1} whose every binary operation is tried
MaxTable == 2

\* the largest n of Zn(n)
MaxZn == 6

Zn(n) ==
    LET S == 0 .. (n - 1)
    IN  GroupOf(S, [x \in S \X S |-> (x[1] + x[2]) % n]).val

\* itertools.permutations(range(n)): tuples, here indexed from 1
Perms(n) ==
    {p \in [1 .. n -> 0 .. (n - 1)] : \A i, j \in 1 .. n : p[i] = p[j] => i = j}

Sn(n) ==
    LET S == Perms(n)
    IN  GroupOf(S, [x \in S \X S |-> [j \in 1 .. n |-> x[1][x[2][j] + 1]]]).val

\* Group.__mul__: the Cartesian product of two groups
Group_mul(g, h) ==
    LET S == g.Set \X h.Set
    IN  GroupOf(S, [x \in S \X S |->
                     <<Op(g.bin_op, x[1][1], x[2][1]), Op(h.bin_op, x[1][2], x[2][2])>>])

\* every Group the constructor accepts on a carrier {0 .. n-1}, n <= MaxTable
TableGroups ==
    UNION {LET S == 0 .. (n - 1) IN
           {r.val : r \in {q \in {GroupOf(S, f) : f \in [S \X S -> S]} : IsOk(q)}}
           : n \in 1 .. MaxTable}

-----------------------------------------------------------------------------
(* GroupElem *)

GroupElem(elem, group) == [elem |-> elem, group |-> group]

\* GroupElem.__init__: elem must be in group.Set
GroupElem_init(elem, group) ==
    IF elem \notin group.Set THEN Raise("TypeError") ELSE Ok(GroupElem(elem, group))

\* GroupElem.__eq__: the same raw element, whatever the groups
GroupElem_eq(a, b) == a.elem = b.elem

\* Group.group_elems and Group.e as GroupElems
group_elems(g) == {GroupElem(x, g) : x \in g.Set}

e_of(g) == GroupElem(g.e, g)

\* Group.__contains__ and membership in an AlgSet of GroupElems: by raw element
ElemsOf(A) == {a.elem : a \in A}

\* Group.__iter__: the identity first, then the others in iteration order
Group_iter(g) ==
    <<e_of(g)>> \o [i \in 1 .. Cardinality(g.Set \ {g.e}) |->
                      GroupElem(Iter(g.Set \ {g.e})[i], g)]

RECURSIVE GroupElem_mul(_, _), GroupElem_rmul(_, _), GroupElem_pow(_, _),
          inverse(_, _), InverseFrom(_, _, _, _)

\* GroupElem.__rmul__: other * self, in self's group
GroupElem_rmul(self, other) ==
    IF is_abelian(self.group) /\ isinstance_int(other) THEN GroupElem_pow(self, other)
    ELSE IF ~isinstance_GroupElem(other) THEN Raise("TypeError")
    ELSE LET r == Function_call(self.group.bin_op, <<other.elem, self.elem>>)
         IN  IF IsOk(r) THEN GroupElem_init(r.val, self.group) ELSE r

\* GroupElem.__mul__: self * other in self's group; on a TypeError, other.__rmul__
GroupElem_mul(self, other) ==
    IF is_abelian(self.group) /\ isinstance_int(other) THEN GroupElem_pow(self, other)
    ELSE IF ~isinstance_GroupElem(other) THEN Raise("TypeError")
    ELSE LET r == Function_call(self.group.bin_op, <<self.elem, other.elem>>)
             w == IF IsOk(r) THEN GroupElem_init(r.val, self.group) ELSE r
         IN  IF w.status = "TypeError" THEN GroupElem_rmul(other, self) ELSE w

\* the loop of Group.inverse, from position i of the iteration
InverseFrom(g, x, it, i) ==
    IF i > Len(it) THEN Raise("RuntimeError")
    ELSE LET p == GroupElem_mul(x, it[i])
         IN  IF ~IsOk(p) THEN p
             ELSE IF GroupElem_eq(p.val, e_of(g)) THEN Ok(it[i])
             ELSE InverseFrom(g, x, it, i + 1)

\* Group.inverse
inverse(g, x) ==
    IF x.elem \notin g.Set THEN Raise("TypeError")
    ELSE InverseFrom(g, x, Group_iter(g), 1)

\* GroupElem.__pow__
GroupElem_pow(self, n) ==
    IF ~isinstance_int(n) THEN Raise("TypeError")
    ELSE IF n.val = 0 THEN Ok(e_of(self.group))
    ELSE IF n.val < 0 THEN
        LET i == inverse(self.group, self)
        IN  IF IsOk(i) THEN GroupElem_pow(i.val, Int_(-n.val)) ELSE i
    ELSE IF n.val % 2 = 1 THEN
        LET p == GroupElem_pow(self, Int_(n.val - 1))
        IN  IF IsOk(p) THEN GroupElem_mul(self, p.val) ELSE p
    ELSE
        LET s == GroupElem_mul(self, self)
        IN  IF IsOk(s) THEN GroupElem_pow(s.val, TrueDiv2(n)) ELSE s

-----------------------------------------------------------------------------
(* Group.generate *)

\* an item of the iterable given to generate: a GroupElem, or a raw value
Raw(x) == [raw |-> x]

\* line 295: a GroupElem is kept, anything else is wrapped
Convert(g, item) ==
    IF isinstance_GroupElem(item) THEN Ok(item) ELSE GroupElem_init(item.raw, g)

\* an AlgSet of GroupElems holds one GroupElem for each raw element
OnePerElem(A) ==
    {CHOOSE a \in A : a.elem = x : x \in ElemsOf(A)}

\* oldG | AlgSet(...): the left operand's GroupElems are kept
AlgSet_union(A, B) == A \cup OnePerElem({b \in B : b.elem \notin ElemsOf(A)})

\* the products a * b of line 305
Products(oldG) == {GroupElem_mul(a, b) : a \in oldG, b \in oldG}

\* the closure loop stopped after its first round of products
Closure_single_round(oldG) ==
    LET prods == Products(oldG) IN
    IF \E p \in prods : ~IsOk(p) THEN CHOOSE p \in prods : ~IsOk(p)
    ELSE Ok(AlgSet_union(oldG, {p.val : p \in prods}))

\* lines 303-309: the closure loop
RECURSIVE Closure(_)
Closure(oldG) ==
    LET prods == Products(oldG) IN
    IF \E p \in prods : ~IsOk(p) THEN CHOOSE p \in prods : ~IsOk(p)
    ELSE LET newG == AlgSet_union(oldG, {p.val : p \in prods})
         IN  IF ElemsOf(oldG) = ElemsOf(newG) THEN Ok(oldG) ELSE Closure(newG)

\* Group(S, self.bin_op.new_domains(S * S, S)) of lines 312, 442 and 447
Restrict(g, S) ==
    LET F == new_domains(g.bin_op, S \X S, S)
    IN  IF IsOk(F) THEN Group_init(S, F.val) ELSE F

generate(g, items) ==
    LET conv == {Convert(g, it) : it \in items} IN
    IF \E c \in conv : ~IsOk(c) THEN Raise("TypeError")
    ELSE LET elems == OnePerElem({c.val : c \in conv}) IN
         IF ~(ElemsOf(elems) \subseteq g.Set) THEN Raise("ValueError")
         ELSE IF Cardinality(elems) = 0 THEN Raise("ValueError")
         ELSE LET c == Closure(elems)
              IN  IF IsOk(c) THEN Restrict(g, ElemsOf(c.val)) ELSE c

\* GroupElem.order
order(x) ==
    LET h == generate(x.group, {x}) IN IF IsOk(h) THEN Ok(Group_len(h.val)) ELSE h

-----------------------------------------------------------------------------
(* The state: a Group G, a second Group H, and one call on them. *)
(* pc is "idle" before the call, the name of a loop while the call is  *)
(* inside it, and "done" once the call has returned or raised; arg is  *)
(* the call, local its local variables and ret its outcome. sameType says that the raw elements   *)
(* of G and of H are of the same Python type.                      *)

Z2xZ2 == Group_mul(Zn(2), Zn(2)).val

Z2xZ3 == Group_mul(Zn(2), Zn(3)).val

S3 == Sn(3)

\* g is Sn(3): the one Group of order 6 among these that is not abelian
IsS3(g) == Group_len(g) = 6 /\ ~is_abelian(g)

\* Groups whose raw elements are ints
IntGroups == TableGroups \cup {Zn(n) : n \in 1 .. MaxZn}

NoCall == [op |-> "none"]

Idle ==
    /\ pc = "idle"
    /\ arg = NoCall
    /\ ret = None
    /\ local = <<>>

Init ==
    /\ Idle
    /\ \/ G \in IntGroups /\ H \in IntGroups /\ sameType = TRUE
       \/ G \in {Z2xZ2, Z2xZ3} /\ H \in {Z2xZ2, Z2xZ3} /\ sameType = TRUE
       \/ G = S3 /\ H = S3 /\ sameType = TRUE
       \/ G = Zn(4) /\ H = Z2xZ2 /\ sameType = FALSE
       \/ G = Z2xZ2 /\ H = Zn(4) /\ sameType = FALSE
       \/ G = Zn(6) /\ H \in {Z2xZ3, S3} /\ sameType = FALSE
       \/ G \in {Z2xZ3, S3} /\ H = Zn(6) /\ sameType = FALSE

Return(call, outcome) ==
    /\ pc' = "done"
    /\ arg' = call
    /\ ret' = outcome

-----------------------------------------------------------------------------
(* G.generate(elems) *)

\* elems: elements of G, all wrapped or all raw, and possibly one element of
\* H that G does not have, wrapped by H or raw
GenerateInputs ==
    LET own == {{GroupElem(x, G) : x \in S} : S \in SUBSET G.Set}
                 \cup {{Raw(x) : x \in S} : S \in SUBSET G.Set}
        out == IF sameType THEN H.Set \ G.Set ELSE {}
        bad == {{GroupElem(x, H)} : x \in out} \cup {{Raw(x)} : x \in out}
    IN  own \cup {S \cup B : S \in own, B \in bad}

CallGenerate ==
    /\ pc = "idle"
    /\ \E items \in GenerateInputs :
          Return([op |-> "generate", items |-> items], generate(G, items))
    /\ UNCHANGED <<G, H, sameType, local>>

SpecGenerate == Init /\ [][CallGenerate]_vars

\* the raw elements an item list names
RawOf(items) ==
    {IF isinstance_GroupElem(it) THEN it.elem ELSE it.raw : it \in items}

\* T is closed under G's operation
ClosedInG(T) == \A a \in T, b \in T : Op(G.bin_op, a, b) \in T

GenerateReturned == pc = "done" /\ arg.op = "generate"

\* the call names only elements of G, and at least one
GenerateOfElements ==
    /\ GenerateReturned
    /\ arg.items # {}
    /\ RawOf(arg.items) \subseteq G.Set

\* C3: G.generate(S), S a non-empty set of elements of G, returns the Group on
\* the smallest set that contains S and is closed under G's operation; the
\* identity alone generates a Group of order 1.
C3_GenerateSmallestClosed ==
    GenerateOfElements =>
        /\ IsOk(ret)
        /\ RawOf(arg.items) \subseteq ret.val.Set
        /\ ClosedInG(ret.val.Set)
        /\ \A T \in SUBSET G.Set :
              (RawOf(arg.items) \subseteq T /\ ClosedInG(T)) => ret.val.Set \subseteq T
        /\ (RawOf(arg.items) = {G.e} => Group_len(ret.val) = 1)

\* a call whose closure needed more than one round of products
C3_Witness ==
    /\ GenerateOfElements
    /\ IsOk(ret)
    /\ Cardinality(ret.val.Set) > Cardinality(RawOf(arg.items)) + 1
    /\ ret.val.Set # G.Set

\* C9: generate raises ValueError when elems is empty or holds something that
\* is not an element of G, raw or wrapped.
C9_GenerateValueError ==
    (GenerateReturned /\ ~GenerateOfElements) => ret.status = "ValueError"

-----------------------------------------------------------------------------
(* G.inverse(g) and g ** n *)

\* the largest |n| of g ** n
MaxExp == 4

CallInverse ==
    /\ pc = "idle"
    /\ \E x \in G.Set :
          Return([op |-> "inverse", g |-> GroupElem(x, G)], inverse(G, GroupElem(x, G)))
    /\ UNCHANGED <<G, H, sameType, local>>

CallPow ==
    /\ pc = "idle"
    /\ \E x \in G.Set, n \in (-MaxExp) .. MaxExp :
          Return([op |-> "pow", g |-> GroupElem(x, G), n |-> n],
                 GroupElem_pow(GroupElem(x, G), Int_(n)))
    /\ UNCHANGED <<G, H, sameType, local>>

SpecElem == Init /\ [][CallInverse \/ CallPow]_vars

\* C1: in every Group the constructor accepts, g * inverse(g) and
\* inverse(g) * g are both the stored identity, and inverse never raises.
C1_InverseTwoSided ==
    (pc = "done" /\ arg.op = "inverse") =>
        /\ IsOk(ret)
        /\ Op(G.bin_op, arg.g.elem, ret.val.elem) = G.e
        /\ Op(G.bin_op, ret.val.elem, arg.g.elem) = G.e

\* the n-fold product of x in G, n >= 0
RECURSIVE Power(_, _)
Power(x, n) == IF n = 0 THEN G.e ELSE Op(G.bin_op, x, Power(x, n - 1))

\* C8: g ** n never raises and is the n-th power of g: the identity for n = 0,
\* the n-fold product for n > 0, inverse(g) ** (-n) for n < 0.
C8_PowIsNthPower ==
    (pc = "done" /\ arg.op = "pow") =>
        /\ IsOk(ret)
        /\ ret.val.elem =
              IF arg.n >= 0 THEN Power(arg.g.elem, arg.n)
              ELSE Power(inverse(G, arg.g).val.elem, -arg.n)

-----------------------------------------------------------------------------
(* G.subgroups() *)

\* Group.__eq__: equal sets and equal operations
Group_eq(g, h) == g.Set = h.Set /\ Function_eq(g.bin_op, h.bin_op)

\* an AlgSet of Groups holds one Group of each class of equal Groups
OnePerGroup(A) ==
    {CHOOSE g \in A : Group_eq(g, x) : x \in A}

\* old_sgs | AlgSet(...): the left operand's Groups are kept
Groups_union(A, B) ==
    A \cup OnePerGroup({b \in B : \A a \in A : ~Group_eq(a, b)})

\* the extensions made of g alone, without the elements of sg
Extensions_without_sg(g, old_sgs) ==
    UNION {{generate(g, {x}) :
               x \in {y \in Range(Group_iter(g)) : y.elem \notin sg.Set}} :
           sg \in old_sgs}

\* lines 324-327: generate(list(sg.group_elems) + [g]) for every known
\* subgroup sg and every g of self outside it
Extensions(g, old_sgs) ==
    UNION {{generate(g, group_elems(sg) \cup {x}) :
               x \in {y \in Range(Group_iter(g)) : y.elem \notin sg.Set}} :
           sg \in old_sgs}

\* line 321: the subgroup the identity generates
SubgroupsStart ==
    /\ pc = "idle"
    /\ LET t == generate(G, {e_of(G)}) IN
       IF IsOk(t)
       THEN /\ pc' = "subgroups"
            /\ local' = [old_sgs |-> {t.val}]
            /\ UNCHANGED <<arg, ret>>
       ELSE /\ Return([op |-> "subgroups"], t)
            /\ UNCHANGED local
    /\ UNCHANGED <<G, H, sameType>>

\* lines 322-334: one round of the loop, and the return once a round adds nothing
SubgroupsRound ==
    /\ pc = "subgroups"
    /\ LET ext == Extensions(G, local.old_sgs) IN
       IF \E x \in ext : ~IsOk(x)
       THEN /\ Return([op |-> "subgroups"], CHOOSE x \in ext : ~IsOk(x))
            /\ UNCHANGED local
       ELSE LET new_sgs == Groups_union(local.old_sgs, {x.val : x \in ext}) IN
            IF new_sgs = local.old_sgs
            THEN /\ Return([op |-> "subgroups"], Ok(local.old_sgs))
                 /\ UNCHANGED local
            ELSE /\ local' = [old_sgs |-> new_sgs]
                 /\ UNCHANGED <<pc, arg, ret>>
    /\ UNCHANGED <<G, H, sameType>>

SpecSubgroups == Init /\ [][SubgroupsStart \/ SubgroupsRound]_vars

\* the subsets of G that hold the stored identity and are closed under the operation
ClosedWithIdentity == {T \in SUBSET G.Set : G.e \in T /\ ClosedInG(T)}

\* C4: subgroups() returns every subset of G that holds the identity and is
\* closed under the operation, each as one Group, and nothing else; Sn(3) has 6.
C4_SubgroupsExact ==
    (pc = "done" /\ arg.op = "subgroups") =>
        /\ IsOk(ret)
        /\ {sg.Set : sg \in ret.val} = ClosedWithIdentity
        /\ Cardinality(ret.val) = Cardinality(ClosedWithIdentity)
        /\ (IsS3(G) => Cardinality(ret.val) = 6)

\* subgroups() has returned for a Group with proper non-trivial subgroups,
\* two of which are not contained in one another
C4_Witness ==
    /\ pc = "done" /\ arg.op = "subgroups" /\ IsOk(ret)
    /\ \E a \in ret.val, b \in ret.val :
          /\ ~(a.Set \subseteq b.Set) /\ ~(b.Set \subseteq a.Set)

-----------------------------------------------------------------------------
(* G.generators() *)

\* self.generate(result), result a list of raw elements
GenerateRaw(g, result) == generate(g, {Raw(result[i]) : i \in DOMAIN result})

\* lines 342-343: the locals of generators(), called from `caller`
GeneratorsLocals(caller) ==
    [caller |-> caller,
     result |-> <<G.e>>,
     H |-> GenerateRaw(G, <<G.e>>).val]

\* lines 351-355: the list that generators() returns
GeneratorsResult(g, result) ==
    LET r == IF Group_len(g) # 1 THEN Tail(result) ELSE result
    IN  [i \in DOMAIN r |-> GroupElem(r[i], g)]

GeneratorsStart ==
    /\ pc = "idle"
    /\ pc' = "generators"
    /\ arg' = [op |-> "generators"]
    /\ local' = GeneratorsLocals("top")
    /\ UNCHANGED <<G, H, sameType, ret>>

\* lines 345-349: one round of the loop, pick() returning any element left out
GeneratorsRound ==
    /\ pc = "generators"
    /\ Group_len(local.H) < Group_len(G)
    /\ \E x \in pick(G.Set \ local.H.Set) :
          LET result == Append(local.result, x) IN
          local' = [local EXCEPT !.result = result, !.H = GenerateRaw(G, result).val]
    /\ UNCHANGED <<G, H, sameType, pc, arg, ret>>

GeneratorsReturn ==
    /\ pc = "generators"
    /\ local.caller = "top"
    /\ ~(Group_len(local.H) < Group_len(G))
    /\ Return(arg, Ok(GeneratorsResult(G, local.result)))
    /\ UNCHANGED <<G, H, sameType, local>>

SpecGenerators == Init /\ [][GeneratorsStart \/ GeneratorsRound \/ GeneratorsReturn]_vars

\* the largest k with 2^k <= n, n >= 1
RECURSIVE FloorLog2(_)
FloorLog2(n) == IF n < 2 THEN 0 ELSE 1 + FloorLog2(n \div 2)

\* C5: whatever pick() returns, generators() returns at most
\* floor(log2 |G|) + 1 elements, they generate a Group of the order of G, and
\* the identity is among them only when |G| = 1.
C5_GeneratorsGenerate ==
    (pc = "done" /\ arg.op = "generators") =>
        /\ IsOk(ret)
        /\ Len(ret.val) <= FloorLog2(Group_len(G)) + 1
        /\ LET h == generate(G, Range(ret.val))
           IN  IsOk(h) /\ Group_len(h.val) = Group_len(G)
        /\ (G.e \in ElemsOf(Range(ret.val)) => Group_len(G) = 1)

-----------------------------------------------------------------------------
(* GroupHomomorphism *)

\* GroupHomomorphism.__init__; function maps the raw elements of the
\* domain's GroupElems to GroupElems
GroupHomomorphism_init(domain, codomain, function) ==
    IF \E x \in domain.Set : function[x].elem \notin codomain.Set
    THEN Raise("TypeError")
    ELSE IF \E a \in domain.Set, b \in domain.Set :
              ~GroupElem_eq(function[Op(domain.bin_op, a, b)],
                            GroupElem_mul(function[a], function[b]).val)
    THEN Raise("ValueError")
    ELSE Ok([domain |-> domain, codomain |-> codomain, function |-> function])

\* GroupHomomorphism.kernel
kernel(h) ==
    Restrict(h.domain,
             {x \in h.domain.Set : GroupElem_eq(h.function[x], e_of(h.codomain))})

\* GroupHomomorphism.image, over Function._image
image(h) ==
    Restrict(h.codomain, {h.function[x].elem : x \in h.domain.Set})

-----------------------------------------------------------------------------
(* G.find_isomorphism(H) *)

\* the most passes of the closure loop that are counted
MaxPasses == 8

\* itertools.permutations(other, r), as tuples of positions in the iteration
\* of other, in the order itertools yields them
IndexPerms(n, r) ==
    {p \in [1 .. r -> 1 .. n] : \A i, j \in 1 .. r : p[i] = p[j] => i = j}

LexLess(p, q) ==
    \E i \in DOMAIN p : p[i] < q[i] /\ \A j \in 1 .. (i - 1) : p[j] = q[j]

LexMin(P) == CHOOSE p \in P : \A q \in P : q = p \/ LexLess(p, q)

\* the first permutation, <<>> when there is none
FirstPerm(n, r) ==
    IF IndexPerms(n, r) = {} THEN <<>> ELSE LexMin(IndexPerms(n, r))

\* the permutation after p, <<>> when p is the last
NextPerm(p, n) ==
    LET after == {q \in IndexPerms(n, Len(p)) : LexLess(p, q)}
    IN  IF after = {} THEN <<>> ELSE LexMin(after)

\* line 375: func = dict(zip(A, B)); a dict is its keys in insertion order
\* and the value of each key's raw element
Zip(A, Bidx, other_it) ==
    [keys |-> A,
     func |-> [x \in ElemsOf(Range(A)) |->
                 other_it[Bidx[CHOOSE i \in DOMAIN A : A[i].elem = x]]]]

\* lines 381-388: the for loop over product(func, func) from its i-th pair on
RECURSIVE PassFrom(_, _, _, _, _)
PassFrom(keys, func, nkeys, noobs, i) ==
    LET m == Len(keys) IN
    IF i >= m * m
    THEN [keys |-> nkeys, noobs |-> noobs, counterexample |-> FALSE]
    ELSE LET g == keys[(i \div m) + 1]
             h == keys[(i % m) + 1]
             gh == GroupElem_mul(g, h).val
             img == GroupElem_mul(func[g.elem], func[h.elem]).val
         IN  IF gh.elem \in DOMAIN func
             THEN IF ~GroupElem_eq(img, func[gh.elem])
                  THEN [keys |-> nkeys, noobs |-> noobs, counterexample |-> TRUE]
                  ELSE PassFrom(keys, func, nkeys, noobs, i + 1)
             ELSE IF gh.elem \in DOMAIN noobs
                  THEN PassFrom(keys, func, nkeys,
                                [noobs EXCEPT ![gh.elem] = img], i + 1)
                  ELSE PassFrom(keys, func, Append(nkeys, gh),
                                (gh.elem :> img) @@ noobs, i + 1)

EmptyDict == [x \in {} |-> x]

\* lines 381-399: one pass of the while loop
\*   broke: the break of line 393 was taken
ClosurePass(self, keys, func) ==
    LET p == PassFrom(keys, func, <<>>, EmptyDict, 0) IN
    IF Cardinality(DOMAIN func) = Group_len(self)
    THEN [keys |-> keys, func |-> func, counterexample |-> p.counterexample,
          broke |-> TRUE]
    ELSE LET imagelen == Cardinality({p.noobs[x].elem : x \in DOMAIN p.noobs}
                                     \cup {func[x].elem : x \in DOMAIN func})
         IN  [keys |-> keys \o p.keys,
              func |-> p.noobs @@ func,
              counterexample |->
                  \/ p.counterexample
                  \/ imagelen # Cardinality(DOMAIN p.noobs) + Cardinality(DOMAIN func),
              broke |-> FALSE]

\* lines 365-369
IsoStart ==
    /\ pc = "idle"
    /\ arg' = [op |-> "find_isomorphism"]
    /\ IF Group_len(G) # Group_len(H) \/ is_abelian(G) # is_abelian(H)
       THEN /\ pc' = "done"
            /\ ret' = None
            /\ UNCHANGED local
       ELSE /\ pc' = "generators"
            /\ local' = GeneratorsLocals("find_isomorphism")
            /\ UNCHANGED ret
    /\ UNCHANGED <<G, H, sameType>>

\* line 372 returns; line 373 starts the permutations
IsoGenerators ==
    /\ pc = "generators"
    /\ local.caller = "find_isomorphism"
    /\ ~(Group_len(local.H) < Group_len(G))
    /\ LET A == GeneratorsResult(G, local.result) IN
       local' = [A |-> A, B |-> FirstPerm(Group_len(H), Len(A)),
                 keys |-> <<>>, func |-> EmptyDict, passes |-> 0]
    /\ pc' = "iso_for"
    /\ UNCHANGED <<G, H, sameType, arg, ret>>

\* lines 373-376: the next permutation B, or line 404 when there is none
IsoFor ==
    /\ pc = "iso_for"
    /\ IF local.B = <<>>
       THEN /\ Return(arg, None)
            /\ UNCHANGED local
       ELSE /\ LET z == Zip(local.A, local.B, Group_iter(H)) IN
               local' = [local EXCEPT !.keys = z.keys, !.func = z.func, !.passes = 0]
            /\ pc' = "iso_while"
            /\ UNCHANGED <<arg, ret>>
    /\ UNCHANGED <<G, H, sameType>>

\* lines 377-402: one pass of the while loop; when the loop ends, the
\* homomorphism is returned or the next permutation is taken
IsoPass ==
    /\ pc = "iso_while"
    /\ LET p == ClosurePass(G, local.keys, local.func)
           n == IF local.passes < MaxPasses THEN local.passes + 1 ELSE local.passes
       IN  IF p.broke /\ ~p.counterexample
           THEN /\ Return(arg, GroupHomomorphism_init(G, H, p.func))
                /\ local' = [local EXCEPT !.passes = n]
           ELSE IF p.counterexample
           THEN /\ local' = [local EXCEPT !.keys = p.keys, !.func = p.func,
                                          !.passes = n,
                                          !.B = NextPerm(local.B, Group_len(H))]
                /\ pc' = "iso_for"
                /\ UNCHANGED <<arg, ret>>
           ELSE /\ local' = [local EXCEPT !.keys = p.keys, !.func = p.func,
                                          !.passes = n]
                /\ UNCHANGED <<pc, arg, ret>>
    /\ UNCHANGED <<G, H, sameType>>

NextIso == IsoStart \/ GeneratorsRound \/ IsoGenerators \/ IsoFor \/ IsoPass

SpecIso == Init /\ [][NextIso]_vars

\* f, from the raw elements of G to those of H, is a bijective homomorphism
IsIsomorphism(f) ==
    /\ \A a \in G.Set, b \in G.Set : f[a] = f[b] => a = b
    /\ {f[a] : a \in G.Set} = H.Set
    /\ \A a \in G.Set, b \in G.Set :
          f[Op(G.bin_op, a, b)] = Op(H.bin_op, f[a], f[b])

IsoExists ==
    /\ Group_len(G) = Group_len(H)
    /\ \E f \in [G.Set -> H.Set] : IsIsomorphism(f)

FindIsomorphismReturned == arg.op = "find_isomorphism" /\ pc = "done"

\* what find_isomorphism returned is right: a bijective homomorphism from G
\* to H, or None when there is no isomorphism
IsoAnswerRight ==
    \/ /\ IsOk(ret)
       /\ DOMAIN ret.val.function = G.Set
       /\ IsIsomorphism([x \in G.Set |-> ret.val.function[x].elem])
    \/ /\ ret = None
       /\ ~IsoExists

\* the while loop of line 377 is at a pass that neither ends it nor changes
\* func: every later pass is the same pass, and the call never returns
LoopsForever ==
    /\ pc = "iso_while"
    /\ LET p == ClosurePass(G, local.keys, local.func)
       IN  ~p.broke /\ ~p.counterexample /\ p.func = local.func

\* C2: find_isomorphism returns a bijective homomorphism from G to H when
\* the two are isomorphic and None when they are not: what it returns is
\* right, and it is never in a loop that keeps it from returning.
C2_FindIsomorphismDecides ==
    arg.op = "find_isomorphism" =>
        /\ (pc = "done" => IsoAnswerRight)
        /\ ~LoopsForever

\* C10: every pass of the closure loop ends the loop or maps more elements of
\* G, so a candidate takes at most |G| passes.
C10_PassesMakeProgress ==
    (arg.op = "find_isomorphism" /\ pc = "iso_while") =>
        /\ local.passes < Group_len(G)
        /\ LET p == ClosurePass(G, local.keys, local.func)
           IN  \/ p.broke
               \/ p.counterexample
               \/ Cardinality(DOMAIN p.func) > Cardinality(DOMAIN local.func)

-----------------------------------------------------------------------------
(* GroupHomomorphism(G, H, f), then kernel() and image() *)

\* the largest order of G and of H for which every f is tried
MaxHom == 3

HomInputs ==
    IF Group_len(G) <= MaxHom /\ Group_len(H) <= MaxHom
    THEN [G.Set -> group_elems(H)] ELSE {}

HomConstruct ==
    /\ pc = "idle"
    /\ \E f \in HomInputs :
          LET h == GroupHomomorphism_init(G, H, f) IN
          IF IsOk(h)
          THEN /\ pc' = "hom"
               /\ local' = [hom |-> h.val]
               /\ UNCHANGED <<arg, ret>>
          ELSE /\ Return([op |-> "GroupHomomorphism"], h)
               /\ UNCHANGED local
    /\ UNCHANGED <<G, H, sameType>>

CallKernel ==
    /\ pc = "hom"
    /\ Return([op |-> "kernel"], kernel(local.hom))
    /\ UNCHANGED <<G, H, sameType, local>>

CallImage ==
    /\ pc = "hom"
    /\ Return([op |-> "image"], image(local.hom))
    /\ UNCHANGED <<G, H, sameType, local>>

SpecHom == Init /\ [][HomConstruct \/ CallKernel \/ CallImage]_vars

\* C7: for a constructed GroupHomomorphism h, kernel() and image() return
\* Groups, and len(h.kernel()) * len(h.image()) == len(h.domain).
C7_KernelTimesImage ==
    (pc = "done" /\ arg.op \in {"kernel", "image"}) =>
        /\ IsOk(ret)
        /\ IsOk(kernel(local.hom))
        /\ IsOk(image(local.hom))
        /\ Group_len(kernel(local.hom).val) * Group_len(image(local.hom).val)
              = Group_len(local.hom.domain)

-----------------------------------------------------------------------------
(* G / N and G.__div__(N) *)

\* Group.__le__: self is a subgroup of other
Group_le(self, other) ==
    /\ self.Set \subseteq other.Set
    /\ \A a \in self.Set, b \in self.Set :
          Op(self.bin_op, a, b) = Function_call(other.bin_op, <<a, b>>).val

\* Group.is_normal_subgroup: self <= other and g * self = self * g for g in other
is_normal_subgroup(self, other) ==
    /\ Group_le(self, other)
    /\ \A g \in Range(Group_iter(other)) :
          {GroupElem_mul(g, h).val.elem : h \in Range(Group_iter(self))}
             = {GroupElem_mul(h, g).val.elem : h \in Range(Group_iter(self))}

\* line 252: the AlgSet of the cosets g * other
Cosets(self, N) ==
    {{Op(self.bin_op, g, h) : h \in N.Set} : g \in self.Set}

\* pick() on each of the sets in Cs: any element of the set, and the same
\* element each time it is asked of the same set
RECURSIVE Picks(_)
Picks(Cs) ==
    IF Cs = {} THEN {EmptyDict}
    ELSE LET c == CHOOSE x \in Cs : TRUE IN
         {(c :> h) @@ f : h \in pick(c), f \in Picks(Cs \ {c})}

\* lines 254-256, rep being what pick() returns
multiply_cosets(self, rep, x) == {Op(self.bin_op, rep[x[1]], g) : g \in x[2]}

\* Group.__div__: the outcomes it can have, one for each way pick() can answer
Group_div(self, N) ==
    IF ~is_normal_subgroup(N, self) THEN {Raise("ValueError")}
    ELSE LET Cs == Cosets(self, N) IN
         {GroupOf(Cs, [x \in Cs \X Cs |-> multiply_cosets(self, rep, x)]) :
             rep \in Picks(Cs)}

\* the methods class Group defines (lines 126-408)
Group_methods ==
    {"__init__", "__iter__", "__contains__", "__hash__", "__eq__", "__ne__",
     "__len__", "__str__", "is_abelian", "__le__", "is_normal_subgroup",
     "__div__", "inverse", "__mul__", "generate", "is_cyclic", "subgroups",
     "generators", "find_isomorphism", "is_isomorphic"}

\* self / N: the / of Python 3 (the file imports typing.Self) calls
\* __truediv__ of the class, and raises TypeError when there is none
Group_truediv(self, N) ==
    IF "__truediv__" \in Group_methods THEN Group_div(self, N)
    ELSE {Raise("TypeError")}

\* the Groups tried as N: what generate returns, and H
Divisors ==
    {q.val : q \in {generate(G, {GroupElem(x, G) : x \in S}) :
                       S \in SUBSET G.Set \ {{}}}}
       \cup (IF sameType THEN {H} ELSE {})

CallTruediv ==
    /\ pc = "idle"
    /\ \E N \in Divisors : \E out \in Group_truediv(G, N) :
          Return([op |-> "truediv", N |-> N], out)
    /\ UNCHANGED <<G, H, sameType, local>>

CallDiv ==
    /\ pc = "idle"
    /\ \E N \in Divisors : \E out \in Group_div(G, N) :
          Return([op |-> "__div__", N |-> N], out)
    /\ UNCHANGED <<G, H, sameType, local>>

SpecDiv == Init /\ [][CallTruediv \/ CallDiv]_vars

\* the outcome of a quotient by arg.N is right: for a normal subgroup the
\* Group of its cosets, of order |G| / |N|, and ValueError for anything else
QuotientRight ==
    IF is_normal_subgroup(arg.N, G)
    THEN /\ IsOk(ret)
         /\ ret.val.Set = Cosets(G, arg.N)
         /\ Group_len(ret.val) * Group_len(arg.N) = Group_len(G)
         /\ \A x \in ret.val.Set \X ret.val.Set : \A h \in x[1] :
               Op(ret.val.bin_op, x[1], x[2])
                  = {Op(G.bin_op, h, g) : g \in x[2]}
    ELSE ret.status = "ValueError"

\* C6: G / N is the Group of the cosets of N, of order |G| / |N|, its product
\* the same whatever pick() returns, when N is a normal subgroup of G, and it
\* raises ValueError when N is not.
C6_QuotientByNormalSubgroup ==
    (pc = "done" /\ arg.op = "truediv") => QuotientRight

\* the same of G.__div__(N), called by name
DivByNameRight ==
    (pc = "done" /\ arg.op = "__div__") => QuotientRight

-----------------------------------------------------------------------------
(* The Groups of which the axioms hold on both sides. Group.__init__ tests *)
(* a left identity and right inverses only; the properties below fail of   *)
(* some Group it accepts and hold of every Group that passes this test.    *)

TwoSided(g) ==
    /\ \A a \in g.Set : Op(g.bin_op, a, g.e) = a /\ Op(g.bin_op, g.e, a) = a
    /\ \A a \in g.Set : \E b \in g.Set :
          Op(g.bin_op, a, b) = g.e /\ Op(g.bin_op, b, a) = g.e

InverseTwoSided_OnTwoSided == TwoSided(G) => C1_InverseTwoSided

FindIsomorphismDecides_OnTwoSided ==
    (TwoSided(G) /\ TwoSided(H)) => C2_FindIsomorphismDecides

GeneratorsGenerate_OnTwoSided == TwoSided(G) => C5_GeneratorsGenerate

KernelTimesImage_OnTwoSided ==
    (TwoSided(G) /\ TwoSided(H)) => C7_KernelTimesImage

PassesMakeProgress_OnTwoSided ==
    (TwoSided(G) /\ TwoSided(H)) => C10_PassesMakeProgress

-----------------------------------------------------------------------------
(* All the calls *)

Next ==
    \/ CallGenerate
    \/ CallInverse
    \/ CallPow
    \/ SubgroupsStart
    \/ SubgroupsRound
    \/ GeneratorsStart
    \/ GeneratorsRound
    \/ GeneratorsReturn
    \/ IsoStart
    \/ IsoGenerators
    \/ IsoFor
    \/ IsoPass
    \/ HomConstruct
    \/ CallKernel
    \/ CallImage
    \/ CallTruediv
    \/ CallDiv

Spec == Init /\ [][Next]_vars

====
